---- MODULE Spec2Model ----
(***************************************************************************)
(* crowbar: the boundary layer between the Python host runtime of AWS      *)
(* Lambda and a native Rust handler (src/src/lib.rs).                      *)
(*                                                                         *)
(* One invocation is handler(py, f, py_event, py_context).  It is split    *)
(* where control crosses to user code: Invoke runs handler up to the call  *)
(* of f (event decode, LambdaContext::new), the User* actions are what f   *)
(* does with its LambdaContext, UserReturn is f returning and handler      *)
(* finishing (RuntimeError translation or from_json).  The host object     *)
(* py_context is state of its own: it can change while f runs.             *)
(***************************************************************************)
EXTENDS Integers, Sequences, FiniteSets, TLC

\* Bounds of the model.
MaxTimeCalls == 2     \* get_remaining_time_in_millis calls of one user_fn run

(***************************************************************************)
(* State.                                                                  *)
(***************************************************************************)
VARIABLES
    program,       \* what lambda! was given
    registry,      \* the module built by lambda!: name -> function
    pc,            \* "idle": no invocation in progress; "user_fn": inside f
    py_context,    \* the host context object of the invocation
    ctx,           \* the LambdaContext f holds
    event,         \* the Value f was given
    running,       \* the function whose body is running
    inEvent,       \* history: the py_event of the invocation
    attrsAtNew,    \* history: py_context's attributes when handler was entered
    attrReads,     \* history: getattr calls on py_context in this invocation
    userCalls,     \* history: entries into f in this invocation
    hostCalls,     \* history: what each host remaining-time call did
    timeResults,   \* history: what get_remaining_time_in_millis returned to f
    userOutcome,   \* history: what f returned
    ret,           \* what handler returned to the host
    invokedNames,  \* history: the names the host invoked so far
    bodiesRun      \* history: the functions whose body ran so far

vars == << program, registry, pc, py_context, ctx, event, running, inEvent,
           attrsAtNew, attrReads, userCalls, hostCalls, timeResults,
           userOutcome, ret, invokedNames, bodiesRun >>

(***************************************************************************)
(* Host (Python) objects and serde_json Values, as tagged tuples.          *)
(***************************************************************************)
PyNone == <<"None">>
PyBool(b) == <<"bool", b>>
PyInt(n) == <<"int", n>>
PyFloat(t) == <<"float", t>>          \* t: the float in tenths
PyUnicode(s) == <<"unicode", s>>
PyList(xs) == <<"list", xs>>
PyDict(d) == <<"dict", d>>
PyCustom == <<"instance">>            \* an instance of a user class
NoObject == <<"nothing">>             \* no object at all (placeholder)

Null == <<"Null">>
Bool(b) == <<"Bool", b>>
Number(n) == <<"Number", n>>
NumberF64(t) == <<"Number.f64", t>>
String(s) == <<"String", s>>
Array(xs) == <<"Array", xs>>
Object(m) == <<"Object", m>>
BadNumber == <<"Number?">>            \* a Number none of as_u64/as_i64/as_f64 yields
NoValue == <<"novalue">>              \* no Value at all (placeholder)

RECURSIVE Decodable(_)
Decodable(o) ==
    CASE o[1] \in {"None", "bool", "int", "float", "unicode"} -> TRUE
      [] o[1] = "list" -> \A i \in 1..Len(o[2]) : Decodable(o[2][i])
      [] o[1] = "dict" -> \A k \in DOMAIN o[2] : Decodable(o[2][k])
      [] OTHER -> FALSE

RECURSIVE ToValue(_)
ToValue(o) ==
    CASE o[1] = "None" -> Null
      [] o[1] = "bool" -> Bool(o[2])
      [] o[1] = "int" -> Number(o[2])
      [] o[1] = "float" -> NumberF64(o[2])
      [] o[1] = "unicode" -> String(o[2])
      [] o[1] = "list" -> Array([i \in 1..Len(o[2]) |-> ToValue(o[2][i])])
      [] o[1] = "dict" -> Object([k \in DOMAIN o[2] |-> ToValue(o[2][k])])
      [] OTHER -> NoValue

RECURSIVE Encodable(_)
Encodable(v) ==
    CASE v[1] \in {"Null", "Bool", "Number", "Number.f64", "String"} -> TRUE
      [] v[1] = "Array" -> \A i \in 1..Len(v[2]) : Encodable(v[2][i])
      [] v[1] = "Object" -> \A k \in DOMAIN v[2] : Encodable(v[2][k])
      [] OTHER -> FALSE

RECURSIVE ToPy(_)
ToPy(v) ==
    CASE v[1] = "Null" -> PyNone
      [] v[1] = "Bool" -> PyBool(v[2])
      [] v[1] = "Number" -> PyInt(v[2])
      [] v[1] = "Number.f64" -> PyFloat(v[2])
      [] v[1] = "String" -> PyUnicode(v[2])
      [] v[1] = "Array" -> PyList([i \in 1..Len(v[2]) |-> ToPy(v[2][i])])
      [] v[1] = "Object" -> PyDict([k \in DOMAIN v[2] |-> ToPy(v[2][k])])
      [] OTHER -> NoObject

\* cpython_json::to_json: host object -> Result<Value, JsonError>
to_json(o) ==
    IF Decodable(o) THEN [ok |-> TRUE, val |-> ToValue(o), err |-> ""]
    ELSE [ok |-> FALSE, val |-> NoValue, err |-> "to_json"]

\* cpython_json::from_json: Value -> Result<PyObject, JsonError>
from_json(v) ==
    IF Encodable(v) THEN [ok |-> TRUE, val |-> ToPy(v), err |-> ""]
    ELSE [ok |-> FALSE, val |-> NoObject, err |-> "from_json"]

\* JsonError::to_pyerr: the exception type is the codec's own choice, k.
CodecExcKinds == {"TypeError", "RuntimeError"}
to_pyerr(e, k) == [kind |-> k, msg |-> e]

(***************************************************************************)
(* The host context object.                                                *)
(***************************************************************************)
Fields == << "function_name", "function_version", "invoked_function_arn",
             "memory_limit_in_mb", "aws_request_id", "log_group_name",
             "log_stream_name" >>
FieldNames == {Fields[i] : i \in 1..Len(Fields)}

StrAttr(s) == [ty |-> "str", val |-> s]
AbsentAttr == [ty |-> "absent", val |-> ""]
IntAttr(s) == [ty |-> "int", val |-> s]      \* an attribute that is no string

GoodAttrs ==
    [ function_name |-> StrAttr("f"),
      function_version |-> StrAttr("1"),
      invoked_function_arn |-> StrAttr("arn:aws:lambda:...:function:f"),
      memory_limit_in_mb |-> StrAttr("128"),
      aws_request_id |-> StrAttr("req-1"),
      log_group_name |-> StrAttr("/aws/lambda/f"),
      log_stream_name |-> StrAttr("2024/01/01/[$LATEST]abc") ]

\* What py_context.get_remaining_time_in_millis() does when called.
TimeInt(n) == [ty |-> "int", val |-> n]
TimeRaises == [ty |-> "raises", val |-> 0]
TimeMissing == [ty |-> "missing", val |-> 0]
TimeNotInt == [ty |-> "str", val |-> 0]
TimeOutcomes == { TimeInt(5000), TimeInt(4000), TimeInt(-1),
                  TimeRaises, TimeMissing, TimeNotInt }

AttrSets ==
    {GoodAttrs}
    \cup {[GoodAttrs EXCEPT ![f] = AbsentAttr] : f \in FieldNames}
    \cup {[GoodAttrs EXCEPT ![f] = IntAttr("128")] : f \in FieldNames}
    \cup {[GoodAttrs EXCEPT !["function_name"] = AbsentAttr,
                            !["log_stream_name"] = IntAttr("128")]}

\* What the host object's attributes can become while the user function runs.
ChangedAttrs ==
    { [f \in FieldNames |-> StrAttr("changed")],
      [GoodAttrs EXCEPT !["function_name"] = AbsentAttr],
      [GoodAttrs EXCEPT !["log_stream_name"] = StrAttr("2024/01/02/[$LATEST]def")] }

NoContextObject == [attrs |-> [f \in FieldNames |-> AbsentAttr], time |-> TimeMissing]

(***************************************************************************)
(* LambdaContext (lib.rs 93-187).                                          *)
(***************************************************************************)
NoCtx == [live |-> FALSE, string_storage |-> << >>]

\* py_context.getattr(name)?.extract::<String>()? : the host's own exception
\* on failure (AttributeError: no such attribute; TypeError: not a string).
AttrError(name, a) ==
    [kind |-> IF a.ty = "absent" THEN "AttributeError" ELSE "TypeError",
     msg |-> name]

Min(S) == CHOOSE x \in S : \A y \in S : x <= y

\* Variant: an attribute that cannot be read is taken as the empty string.
LambdaContext_new_lenient(py_ctx) ==
    [ok |-> TRUE,
     ctx |-> [live |-> TRUE,
              string_storage |->
                  [i \in 1..Len(Fields) |->
                      IF py_ctx.attrs[Fields[i]].ty = "str"
                      THEN py_ctx.attrs[Fields[i]].val ELSE ""]],
     err |-> [kind |-> "", msg |-> ""],
     reads |-> Len(Fields)]

\* LambdaContext::new: the seven attributes are read in the order of Fields;
\* the first one that fails ends the construction.  reads counts the getattr
\* calls made.
LambdaContext_new(py_ctx) ==
    LET bad == {i \in 1..Len(Fields) : py_ctx.attrs[Fields[i]].ty # "str"}
    IN  IF bad = {}
        THEN [ok |-> TRUE,
              ctx |-> [live |-> TRUE,
                       string_storage |->
                           [i \in 1..Len(Fields) |-> py_ctx.attrs[Fields[i]].val]],
              err |-> [kind |-> "", msg |-> ""],
              reads |-> Len(Fields)]
        ELSE [ok |-> FALSE,
              ctx |-> NoCtx,
              err |-> AttrError(Fields[Min(bad)], py_ctx.attrs[Fields[Min(bad)]]),
              reads |-> Min(bad)]

\* The seven accessors; Rust index i is position i+1 here.
function_name(c) == c.string_storage[1]
function_version(c) == c.string_storage[2]
invoked_function_arn(c) == c.string_storage[3]
memory_limit_in_mb(c) == c.string_storage[4]
aws_request_id(c) == c.string_storage[5]
log_group_name(c) == c.string_storage[6]
\* Variant: the accessor reads the host object again.
log_stream_name_live(c) == py_context.attrs["log_stream_name"].val
log_stream_name(c) == c.string_storage[7]

Accessor(f, c) ==
    CASE f = "function_name" -> function_name(c)
      [] f = "function_version" -> function_version(c)
      [] f = "invoked_function_arn" -> invoked_function_arn(c)
      [] f = "memory_limit_in_mb" -> memory_limit_in_mb(c)
      [] f = "aws_request_id" -> aws_request_id(c)
      [] f = "log_group_name" -> log_group_name(c)
      [] f = "log_stream_name" -> log_stream_name(c)

\* enum ContextError and its Debug (derived) and Display renderings.
ContextError == {"GetRemainingTimeFailed"}
ContextErrorDebug(e) == e
ContextErrorDisplay(e) ==
    CASE e = "GetRemainingTimeFailed" -> "failed to call get_remaining_time_in_millis"

\* Variant: the first answer is kept and returned again.
get_remaining_time_cached(m) ==
    IF timeResults # << >> THEN timeResults[1]
    ELSE IF m.ty = "int" /\ m.val >= 0
    THEN [ok |-> TRUE, val |-> m.val, err |-> ""]
    ELSE [ok |-> FALSE, val |-> 0, err |-> "GetRemainingTimeFailed"]

\* Variant: the error names the cause of the failure.
get_remaining_time_by_cause(m) ==
    IF m.ty = "int" /\ m.val >= 0
    THEN [ok |-> TRUE, val |-> m.val, err |-> ""]
    ELSE [ok |-> FALSE, val |-> 0,
          err |-> IF m.ty \in {"missing", "raises"} THEN "CallFailed"
                  ELSE "GetRemainingTimeFailed"]

\* get_remaining_time_in_millis: m is what the host method does on this call.
\* call_method fails if the method is missing or raises; extract::<u64> fails
\* on a non-integer, a negative integer or one above u64::MAX.
get_remaining_time_in_millis(m) ==
    IF m.ty = "int" /\ m.val >= 0
    THEN [ok |-> TRUE, val |-> m.val, err |-> ""]
    ELSE [ok |-> FALSE, val |-> 0, err |-> "GetRemainingTimeFailed"]

(***************************************************************************)
(* Errors a user function returns: Box<Error>, known by its renderings.    *)
(***************************************************************************)
BoxError(dbg, disp) == [debug |-> dbg, display |-> disp]
NoError == BoxError("", "")
BoxContextError(e) == BoxError(ContextErrorDebug(e), ContextErrorDisplay(e))
UserErrors == { BoxError("boom", "it went boom"),
                BoxError("NotPresent", "environment variable not found") }
DebugFmt(e) == e.debug        \* format!("{:?}", e)
DisplayFmt(e) == e.display    \* format!("{}", e)

Ok(v) == [tag |-> "Ok", val |-> v, err |-> NoError]
Err(e) == [tag |-> "Err", val |-> NoValue, err |-> e]
NoOutcome == [tag |-> "none", val |-> NoValue, err |-> NoError]

(***************************************************************************)
(* handler (lib.rs 220-235).                                               *)
(***************************************************************************)
NoReturn == [tag |-> "none", obj |-> NoObject, kind |-> "", msg |-> ""]
ReturnOk(o) == [tag |-> "ok", obj |-> o, kind |-> "", msg |-> ""]
Raise(x) == [tag |-> "exc", obj |-> NoObject, kind |-> x.kind, msg |-> x.msg]

\* Variant: the Display rendering is used for the message.
RuntimeError_display(e) == [kind |-> "RuntimeError", msg |-> DisplayFmt(e)]

\* PyErr { ptype: RuntimeError, pvalue: format!("{:?}", e) }
RuntimeError(e) == [kind |-> "RuntimeError", msg |-> DebugFmt(e)]

\* Variant: the context is built before the event is decoded.
handler_enter_ctx_first(py_event, py_ctx, k) ==
    LET ev == to_json(py_event)
        c == LambdaContext_new(py_ctx)
    IN  IF ~c.ok
        THEN [calls |-> 0, ret |-> Raise(c.err),
              event |-> NoValue, ctx |-> NoCtx, reads |-> c.reads]
        ELSE IF ~ev.ok
        THEN [calls |-> 0, ret |-> Raise(to_pyerr(ev.err, k)),
              event |-> NoValue, ctx |-> NoCtx, reads |-> c.reads]
        ELSE [calls |-> 1, ret |-> NoReturn,
              event |-> ev.val, ctx |-> c.ctx, reads |-> c.reads]

\* Variant: a failed context construction is translated like a handler error.
handler_enter_wrap_ctx(py_event, py_ctx, k) ==
    LET ev == to_json(py_event)
        c == LambdaContext_new(py_ctx)
    IN  IF ~ev.ok
        THEN [calls |-> 0, ret |-> Raise(to_pyerr(ev.err, k)),
              event |-> NoValue, ctx |-> NoCtx, reads |-> 0]
        ELSE IF ~c.ok
        THEN [calls |-> 0,
              ret |-> Raise([kind |-> "RuntimeError", msg |-> c.err.msg]),
              event |-> NoValue, ctx |-> NoCtx, reads |-> c.reads]
        ELSE [calls |-> 1, ret |-> NoReturn,
              event |-> ev.val, ctx |-> c.ctx, reads |-> c.reads]

\* Lines 223-224 up to the call of f: decode the event, then build the context.
\* calls: how often f is entered with (event, ctx) here; with 0 calls ret is
\* what handler returns.
handler_enter(py_event, py_ctx, k) ==
    LET ev == to_json(py_event)
        c == LambdaContext_new(py_ctx)
    IN  IF ~ev.ok
        THEN [calls |-> 0, ret |-> Raise(to_pyerr(ev.err, k)),
              event |-> NoValue, ctx |-> NoCtx, reads |-> 0]
        ELSE IF ~c.ok
        THEN [calls |-> 0, ret |-> Raise(c.err),
              event |-> NoValue, ctx |-> NoCtx, reads |-> c.reads]
        ELSE [calls |-> 1, ret |-> NoReturn,
              event |-> ev.val, ctx |-> c.ctx, reads |-> c.reads]

\* Variant: f is entered once more after it returned an error.
handler_exit_retry(outcome, k) ==
    IF outcome.tag = "Err"
    THEN [ret |-> Raise(RuntimeError(outcome.err)), calls |-> 1]
    ELSE LET r == from_json(outcome.val)
         IN  [ret |-> IF r.ok THEN ReturnOk(r.val) ELSE Raise(to_pyerr(r.err, k)),
              calls |-> 0]

\* Variant: on success the host's event object is handed back.
handler_exit_returns_event(outcome, k) ==
    IF outcome.tag = "Err"
    THEN [ret |-> Raise(RuntimeError(outcome.err)), calls |-> 0]
    ELSE [ret |-> ReturnOk(inEvent), calls |-> 0]

\* Lines 224-234 after f returned: what handler returns to the host, and how
\* often it enters f again (never).
handler_exit(outcome, k) ==
    IF outcome.tag = "Err"
    THEN [ret |-> Raise(RuntimeError(outcome.err)), calls |-> 0]
    ELSE LET r == from_json(outcome.val)
         IN  [ret |-> IF r.ok THEN ReturnOk(r.val) ELSE Raise(to_pyerr(r.err, k)),
              calls |-> 0]

(***************************************************************************)
(* lambda! (lib.rs 289-320): the module's name -> function table.          *)
(***************************************************************************)
Targets == {"echo", "my_handler"}

\* Variant: every name of the module ends up bound to the function added last.
m_add_all(m, name, target) == [n \in DOMAIN m \cup {name} |-> target]

\* m.add(py, name, py_fn!(... handler(py, target, event, context)))
m_add(m, name, target) ==
    [n \in DOMAIN m \cup {name} |-> IF n = name THEN target ELSE m[n]]

RECURSIVE lambda_module(_)
lambda_module(pairs) ==
    IF pairs = << >> THEN << >>
    ELSE m_add(lambda_module(SubSeq(pairs, 1, Len(pairs) - 1)),
               pairs[Len(pairs)][1], pairs[Len(pairs)][2])

\* ($f:expr) => lambda! { "handler" => $f, }
lambda_single(f) == lambda_module(<< <<"handler", f>> >>)

\* What the crate's author wrote: one function, or a table of name => function.
Programs ==
    { [single |-> TRUE, f |-> "echo", pairs |-> << >>],
      [single |-> TRUE, f |-> "my_handler", pairs |-> << >>],
      [single |-> FALSE, f |-> "",
       pairs |-> << <<"a", "echo">>, <<"b", "my_handler">> >>] }

lambda(p) == IF p.single THEN lambda_single(p.f) ELSE lambda_module(p.pairs)

(***************************************************************************)
(* Inputs.                                                                 *)
(***************************************************************************)
PyEvents ==
    { PyDict([x |-> PyInt(1)]),
      PyList(<< PyUnicode("a"), PyNone, PyBool(TRUE), PyFloat(15) >>),
      PyCustom,
      PyDict([x |-> PyCustom]) }

UserValues ==
    { Null,
      Array(<< String("us-east-1"), String("eu-west-1") >>),
      Object([x |-> Number(1), y |-> Array(<< NumberF64(25), Bool(FALSE) >>)]),
      Array(<< BadNumber >>) }

Init ==
    /\ program \in Programs
    /\ registry = lambda(program)
    /\ pc = "idle"
    /\ py_context = NoContextObject
    /\ ctx = NoCtx
    /\ event = NoValue
    /\ running = ""
    /\ inEvent = NoObject
    /\ attrsAtNew = NoContextObject.attrs
    /\ attrReads = 0
    /\ userCalls = 0
    /\ hostCalls = << >>
    /\ timeResults = << >>
    /\ userOutcome = NoOutcome
    /\ ret = NoReturn
    /\ invokedNames = {}
    /\ bodiesRun = {}

\* The host calls liblambda.<name>(py_event, py_context): handler runs up to
\* the call of f, or returns an exception.  The context object starts with
\* 5000 ms remaining; HostTimeChange makes it anything else before f asks.
Invoke(name, py_event, attrs, k) ==
    /\ pc = "idle"
    /\ name \in DOMAIN registry
    /\ LET pyc == [attrs |-> attrs, time |-> TimeInt(5000)]
           h == handler_enter(py_event, pyc, k)
       IN  /\ py_context' = IF h.calls > 0 THEN pyc ELSE NoContextObject
           /\ inEvent' = py_event
           /\ attrsAtNew' = attrs
           /\ event' = h.event
           /\ ctx' = h.ctx
           /\ attrReads' = h.reads
           /\ ret' = h.ret
           /\ userCalls' = h.calls
           /\ pc' = IF h.calls > 0 THEN "user_fn" ELSE "idle"
           /\ running' = IF h.calls > 0 THEN registry[name] ELSE ""
           /\ bodiesRun' = IF h.calls > 0 THEN bodiesRun \cup {registry[name]}
                           ELSE bodiesRun
    /\ invokedNames' = invokedNames \cup {name}
    /\ hostCalls' = << >>
    /\ timeResults' = << >>
    /\ userOutcome' = NoOutcome
    /\ UNCHANGED << program, registry >>

\* f calls one of the seven accessors: a read of string_storage, which
\* changes nothing.  The echo example calls function_name
\* and function_version, before its remaining-time query.
UserAccessor(f) ==
    /\ pc = "user_fn"
    /\ running = "echo" =>
          f \in {"function_name", "function_version"} /\ timeResults = << >>
    /\ Accessor(f, ctx) \in STRING
    /\ UNCHANGED vars

\* f calls ctx.get_remaining_time_in_millis(): one call of the host method.
\* The echo example calls it once.
UserGetRemaining ==
    /\ pc = "user_fn"
    /\ Len(timeResults) < (IF running = "echo" THEN 1 ELSE MaxTimeCalls)
    /\ hostCalls' = Append(hostCalls, py_context.time)
    /\ timeResults' = Append(timeResults, get_remaining_time_in_millis(py_context.time))
    /\ UNCHANGED << program, registry, pc, py_context, ctx, event, running,
                    inEvent, attrsAtNew, attrReads, userCalls,
                    userOutcome, ret, invokedNames, bodiesRun >>

\* What f may return.  echo: the `?` on the remaining-time query, else Ok(event).
\* my_handler: any value or error, its own or one it got from the context.
Outcomes ==
    IF running = "echo"
    THEN IF Len(timeResults) = 0 THEN {}
         ELSE IF timeResults[1].ok THEN {Ok(event)}
         ELSE {Err(BoxContextError(timeResults[1].err))}
    ELSE {Ok(v) : v \in UserValues \cup {event}}
         \cup {Err(e) : e \in UserErrors}
         \cup {Err(BoxContextError(timeResults[i].err)) :
                  i \in {j \in 1..Len(timeResults) : ~timeResults[j].ok}}

\* f returns and handler finishes.
UserReturn(outcome, k) ==
    /\ pc = "user_fn"
    /\ outcome \in Outcomes
    /\ userOutcome' = outcome
    /\ ret' = handler_exit(outcome, k).ret
    /\ userCalls' = userCalls + handler_exit(outcome, k).calls
    /\ pc' = "idle"
    /\ ctx' = NoCtx
    /\ py_context' = NoContextObject
    /\ hostCalls' = << >>
    /\ timeResults' = << >>
    /\ UNCHANGED << program, registry, event, running, inEvent, attrsAtNew,
                    attrReads, invokedNames, bodiesRun >>

\* The host object's attributes change while f runs.
HostAttrChange(attrs) ==
    /\ pc = "user_fn"
    /\ attrs # py_context.attrs
    /\ py_context' = [py_context EXCEPT !.attrs = attrs]
    /\ UNCHANGED << program, registry, pc, ctx, event, running, inEvent,
                    attrsAtNew, attrReads, userCalls, hostCalls, timeResults,
                    userOutcome, ret, invokedNames, bodiesRun >>

\* The host's remaining time (or the method itself) changes while f runs.
HostTimeChange(time) ==
    /\ pc = "user_fn"
    /\ time # py_context.time
    /\ py_context' = [py_context EXCEPT !.time = time]
    /\ UNCHANGED << program, registry, pc, ctx, event, running, inEvent,
                    attrsAtNew, attrReads, userCalls, hostCalls, timeResults,
                    userOutcome, ret, invokedNames, bodiesRun >>

\* The exception types the codec can pick for a failed conversion.
KindsFor(r, K) == IF r.ok THEN {""} ELSE K
KindsForOutcome(o, K) == IF o.tag = "Ok" THEN KindsFor(from_json(o.val), K) ELSE {""}

HostInvokes(K) ==
    \E name \in DOMAIN registry, py_event \in PyEvents, attrs \in AttrSets :
       \E k \in KindsFor(to_json(py_event), K) : Invoke(name, py_event, attrs, k)

UserReturns(K) ==
    \E outcome \in Outcomes :
       \E k \in KindsForOutcome(outcome, K) : UserReturn(outcome, k)

UserCallsAccessor == \E f \in FieldNames : UserAccessor(f)
HostChangesAttrs == \E attrs \in ChangedAttrs : HostAttrChange(attrs)
HostChangesTime == \E time \in TimeOutcomes : HostTimeChange(time)

Next ==
    \/ HostInvokes(CodecExcKinds)
    \/ UserCallsAccessor
    \/ UserGetRemaining
    \/ UserReturns(CodecExcKinds)
    \/ HostChangesAttrs
    \/ HostChangesTime

Spec == Init /\ [][Next]_vars

\* The same program with a codec whose to_pyerr always builds a RuntimeError:
\* the codec most favourable to a single exception kind.
NextRuntimeCodec ==
    \/ HostInvokes({"RuntimeError"})
    \/ UserCallsAccessor
    \/ UserGetRemaining
    \/ UserReturns({"RuntimeError"})
    \/ HostChangesAttrs
    \/ HostChangesTime

SpecRuntimeCodec == Init /\ [][NextRuntimeCodec]_vars

(***************************************************************************)
(* Properties.                                                             *)
(***************************************************************************)
\* An invocation has been made, and what its inputs allow.
Invoked == inEvent # NoObject
DecodeOk == Decodable(inEvent)
ContextOk == \A f \in FieldNames : attrsAtNew[f].ty = "str"
FirstBadField ==
    Fields[Min({i \in 1..Len(Fields) : attrsAtNew[Fields[i]].ty # "str"})]
ValidU64(m) == m.ty = "int" /\ m.val >= 0
GetRemainingTimeFailed == [ok |-> FALSE, val |-> 0, err |-> "GetRemainingTimeFailed"]

\* C1: when f returns Err(e), handler returns one exception, a RuntimeError
\* whose message is exactly the diagnostic (Debug) text of e, and no object.
C1_ErrIsRuntimeErrorWithDebugText ==
    (pc = "idle" /\ userOutcome.tag = "Err") =>
        /\ ret.tag = "exc"
        /\ ret.kind = "RuntimeError"
        /\ ret.msg = userOutcome.err.debug
        /\ ret.obj = NoObject

C1_Witness ==
    /\ pc = "idle"
    /\ userOutcome.tag = "Err"
    /\ userOutcome.err.debug = "boom"
    /\ ret.msg = "boom"

\* C2 as stated: whatever step fails, the exception handler returns is a
\* RuntimeError.
C2_OneKindForEveryStep ==
    ret.tag = "exc" => ret.kind = "RuntimeError"

\* C2, amended: an Err of f is returned as a RuntimeError; a failed context
\* construction is returned as the host's own exception of the failed
\* attribute read (AttributeError if absent, TypeError if no string); a failed
\* decode or encode is returned as the exception the codec built.
C2_KindByStep ==
    ret.tag = "exc" =>
        /\ ~DecodeOk => ret.msg = "to_json"
        /\ (DecodeOk /\ ~ContextOk) =>
              /\ ret.msg = FirstBadField
              /\ ret.kind = (IF attrsAtNew[FirstBadField].ty = "absent"
                             THEN "AttributeError" ELSE "TypeError")
        /\ userOutcome.tag = "Err" =>
              ret.kind = "RuntimeError" /\ ret.msg = userOutcome.err.debug
        /\ userOutcome.tag = "Ok" => ret.msg = "from_json"

C2_Witness ==
    /\ ret.tag = "exc"
    /\ DecodeOk
    /\ attrsAtNew["memory_limit_in_mb"].ty = "int"
    /\ ret.kind = "TypeError"

\* C3: if the event does not decode, handler returns the decode failure at
\* once: f is not entered, no attribute of the context object is read and its
\* remaining-time method is not called, whatever the context object is like.
C3_DecodeFailureComesFirst ==
    (Invoked /\ ~DecodeOk) =>
        /\ pc = "idle"
        /\ ret.tag = "exc"
        /\ ret.msg = "to_json"
        /\ userCalls = 0
        /\ attrReads = 0
        /\ hostCalls = << >>
        /\ ctx = NoCtx

C3_Witness ==
    /\ inEvent = PyDict([x |-> PyCustom])
    /\ attrsAtNew["function_name"].ty = "absent"
    /\ ret.tag = "exc"
    /\ ret.msg = "to_json"

\* C4 as stated: a context object with a missing or non-string field makes the
\* construction fail with ContextError::AttributeExtractionFailed, f is not
\* entered and no partial LambdaContext exists.
C4_FailsWithAttributeExtractionFailed ==
    (Invoked /\ DecodeOk /\ ~ContextOk) =>
        /\ ret.tag = "exc"
        /\ ret.msg = "AttributeExtractionFailed"
        /\ userCalls = 0
        /\ ctx = NoCtx

\* C4, amended: such a context object makes the construction fail as a whole
\* with the host's own exception of the first failed attribute read
\* (AttributeError if absent, TypeError if no string), which has no
\* ContextError variant; f is not entered, and a LambdaContext that exists
\* holds all seven strings.
C4_FailsWithHostException ==
    /\ (Invoked /\ DecodeOk /\ ~ContextOk) =>
          /\ ret = Raise(AttrError(FirstBadField, attrsAtNew[FirstBadField]))
          /\ ret.kind \in {"AttributeError", "TypeError"}
          /\ ret.msg \notin ContextError
          /\ userCalls = 0
          /\ ctx = NoCtx
          /\ pc = "idle"
    /\ ctx.live =>
          /\ ContextOk
          /\ DOMAIN ctx.string_storage = 1..Len(Fields)

C4_Witness ==
    /\ Invoked
    /\ DecodeOk
    /\ attrsAtNew["function_name"].ty = "absent"
    /\ attrsAtNew["log_stream_name"].ty = "int"
    /\ ret.kind = "AttributeError"
    /\ ret.msg = "function_name"

\* C5: f is entered exactly once in an invocation whose event decodes and
\* whose context is constructed, not at all in any other, and never twice.
C5_UserFnCalledExactlyOnce ==
    /\ userCalls <= 1
    /\ Invoked => (userCalls = 1 <=> (DecodeOk /\ ContextOk))

C5_Witness ==
    /\ pc = "idle"
    /\ userOutcome.tag = "Err"
    /\ userCalls = 1

C7_RemainingTimeIsLazy ==
    /\ Len(timeResults) = Len(hostCalls)
    /\ \A i \in 1..Len(hostCalls) :
          ValidU64(hostCalls[i]) =>
              timeResults[i].ok /\ timeResults[i].val = hostCalls[i].val

C7_Witness ==
    /\ Len(timeResults) = 2
    /\ hostCalls[1] = TimeInt(5000)
    /\ hostCalls[2] = TimeInt(4000)
    /\ timeResults[1].val = 5000
    /\ timeResults[2].val = 4000

\* C8: while the LambdaContext exists, each accessor returns the string its
\* namesake attribute had when handler was entered, whatever has happened to
\* the host object or been called on the context since.
C8_AccessorsReturnSnapshot ==
    ctx.live => \A f \in FieldNames : Accessor(f, ctx) = attrsAtNew[f].val

C8_Witness ==
    /\ ctx.live
    /\ py_context.attrs["log_stream_name"].val = "changed"
    /\ Len(timeResults) = 2
    /\ ~timeResults[1].ok
    /\ log_stream_name(ctx) = "2024/01/01/[$LATEST]abc"

\* C9: every failed remaining-time query is the one outcome
\* GetRemainingTimeFailed, handed to f as a value: f is still running, with
\* its context intact and nothing returned to the host.
C9_FailureIsOneValue ==
    /\ \A i \in 1..Len(timeResults) :
          ~ValidU64(hostCalls[i]) => timeResults[i] = GetRemainingTimeFailed
    /\ (timeResults # << >> /\ ~timeResults[Len(timeResults)].ok) =>
          /\ pc = "user_fn"
          /\ ret = NoReturn
          /\ ctx.live
          /\ \A f \in FieldNames : Accessor(f, ctx) = attrsAtNew[f].val

\* A failed query followed, in the same invocation, by one that succeeds;
\* the three causes of failure are all among the first ones.
C9_Witness ==
    /\ Len(timeResults) = 2
    /\ hostCalls[1].ty \in {"missing", "raises", "str"}
    /\ timeResults[1] = GetRemainingTimeFailed
    /\ timeResults[2].ok
    /\ timeResults[2].val = 5000

\* C10: only functions registered under a name the host invoked have run; a
\* single function given without a table is registered under "handler".
C10_OnlyTheNamedHandlerRuns ==
    /\ program.single =>
          /\ DOMAIN registry = {"handler"}
          /\ registry["handler"] = program.f
          /\ bodiesRun \subseteq {program.f}
    /\ ~program.single =>
          bodiesRun \subseteq
              { program.pairs[i][2] :
                  i \in {j \in 1..Len(program.pairs) :
                            program.pairs[j][1] \in invokedNames} }

C10_Witness ==
    /\ ~program.single
    /\ invokedNames = {"a"}
    /\ bodiesRun = {"echo"}
    /\ pc = "idle"
    /\ userOutcome.tag = "Ok"

====
